---- MODULE Spec2Model ----
(***************************************************************************)
(* Smart Garbage Segregation: the FastAPI application of src/main.py and   *)
(* the helpers of src/utils.py.                                            *)
(*                                                                         *)
(*   Spec            the application as served: process start, the startup *)
(*                   event, and the three handlers GET /, POST /predict    *)
(*                   and GET /health over the global model handle.         *)
(*   SpecClassify    classify_recyclable as a pure function of a string.   *)
(*   SpecPreprocess  the image path of predict (open, convert, preprocess, *)
(*                   expand_dims) as a pure pipeline over images.          *)
(*                                                                         *)
(* Python values are modelled as follows.  A str that the code inspects    *)
(* character by character (str.lower, list membership) is a sequence of    *)
(* one-character strings; fixed messages are TLA+ strings.  None is the    *)
(* string "None".  A float k/255 is the pair <<k, 255>>; a probability is  *)
(* an integer number of 1/Units.                                           *)
(***************************************************************************)
EXTENDS Integers, Sequences, FiniteSets, Bags, TLC

VARIABLES
    lifespan,       \* whether the ASGI server drives the lifespan protocol
    weights,        \* state of weights/modelnew.h5 on disk
    server,         \* "init" | "serving" | "exited"
    model,          \* main.py global `model`
    startupError,   \* exception re-raised by load_model_on_startup, or "None"
    modelWrites,    \* number of assignments to the global `model`
    inflight,       \* predict calls suspended at `await file.read()`
    lastResponse,   \* the response most recently sent, with its provenance
    cInput,         \* SpecClassify: argument of classify_recyclable
    cResult,        \* SpecClassify: its return value
    pc,             \* SpecPreprocess: position in the image path
    upload,         \* SpecPreprocess: the uploaded image file
    image,          \* SpecPreprocess: local `image` of predict
    processed,      \* SpecPreprocess: preprocess(image)
    processed2,     \* SpecPreprocess: preprocess(image), called again
    batch           \* SpecPreprocess: local `image_batch` of predict

vars == <<lifespan, weights, server, model, startupError, modelWrites,
          inflight, lastResponse, cInput, cResult, pc, upload, image,
          processed, processed2, batch>>

serverVars == <<lifespan, weights, server, model, startupError, modelWrites,
                inflight, lastResponse>>
classifyVars == <<cInput, cResult>>
preprocessVars == <<pc, upload, image, processed, processed2, batch>>

None == "None"

(***************************************************************************)
(* Strings: str.lower() over the ASCII letters.                            *)
(***************************************************************************)
UpperCase == <<"A","B","C","D","E","F","G","H","I","J","K","L","M",
               "N","O","P","Q","R","S","T","U","V","W","X","Y","Z">>
LowerCase == <<"a","b","c","d","e","f","g","h","i","j","k","l","m",
               "n","o","p","q","r","s","t","u","v","w","x","y","z">>

\* The case mapping of the ASCII letters.
ToLower ==
    [c \in {UpperCase[i] : i \in 1..Len(UpperCase)} |->
        LowerCase[CHOOSE i \in 1..Len(UpperCase) : UpperCase[i] = c]]
ToUpper ==
    [c \in {LowerCase[i] : i \in 1..Len(LowerCase)} |->
        UpperCase[CHOOSE i \in 1..Len(LowerCase) : LowerCase[i] = c]]

\* One character of str.lower(): an upper-case letter maps to its lower-case
\* letter, every other character to itself.
lowerChar(c) == IF c \in DOMAIN ToLower THEN ToLower[c] ELSE c

\* str.lower()
lower(s) == [i \in 1..Len(s) |-> lowerChar(s[i])]

\* One character of str.upper().
upperChar(c) == IF c \in DOMAIN ToUpper THEN ToUpper[c] ELSE c

(***************************************************************************)
(* utils.py: the label table and the bin rule.                             *)
(***************************************************************************)
cardboard == <<"c","a","r","d","b","o","a","r","d">>
glass == <<"g","l","a","s","s">>
metal == <<"m","e","t","a","l">>
paper == <<"p","a","p","e","r">>
plastic == <<"p","l","a","s","t","i","c">>
trash == <<"t","r","a","s","h">>

\* LABELS = {0: "cardboard", ..., 5: "trash"}
LABELS == [i \in 0..5 |->
             CASE i = 0 -> cardboard
               [] i = 1 -> glass
               [] i = 2 -> metal
               [] i = 3 -> paper
               [] i = 4 -> plastic
               [] i = 5 -> trash]

\* A plausible slip: every label listed as recyclable.
RECYCLABLE_CATEGORIES_with_trash == <<cardboard, glass, metal, paper, plastic, trash>>

RECYCLABLE_CATEGORIES == <<cardboard, glass, metal, paper, plastic>>

\* The servo angles returned by classify_recyclable.
RecyclableAngle == 90
OtherAngle == 0

\* Python `x in lst` for a list.
InList(x, lst) == \E i \in 1..Len(lst) : lst[i] = x

\* A plausible slip: the membership test without .lower().
classify_recyclable_case_sensitive(predicted_class) ==
    IF InList(predicted_class, RECYCLABLE_CATEGORIES)
    THEN <<"Recyclable", RecyclableAngle>>
    ELSE <<"Other", OtherAngle>>

classify_recyclable(predicted_class) ==
    IF InList(lower(predicted_class), RECYCLABLE_CATEGORIES)
    THEN <<"Recyclable", RecyclableAngle>>
    ELSE <<"Other", OtherAngle>>

(***************************************************************************)
(* Exceptions and results of calls that may raise.                         *)
(***************************************************************************)
\* Base class of each exception type the handlers can meet (Python builtins,
\* PIL.UnidentifiedImageError, tensorflow.errors.OpError).
ExceptionBase ==
    [t \in {"Exception", "OSError", "FileNotFoundError",
            "UnidentifiedImageError", "ValueError", "AttributeError",
            "LookupError", "KeyError", "OpError"} |->
        CASE t = "Exception" -> "BaseException"
          [] t = "OSError" -> "Exception"
          [] t = "FileNotFoundError" -> "OSError"
          [] t = "UnidentifiedImageError" -> "OSError"
          [] t = "ValueError" -> "Exception"
          [] t = "AttributeError" -> "Exception"
          [] t = "LookupError" -> "Exception"
          [] t = "KeyError" -> "LookupError"
          [] t = "OpError" -> "Exception"]

RECURSIVE IsSubclass(_, _)
\* issubclass(t, base)
IsSubclass(t, base) ==
    IF t = base THEN TRUE
    ELSE IF t \in DOMAIN ExceptionBase THEN IsSubclass(ExceptionBase[t], base)
    ELSE FALSE

NoError == [type |-> None, text |-> None]
Ok(v) == [ok |-> TRUE, val |-> v, err |-> NoError]
Raise(t, text) == [ok |-> FALSE, val |-> None, err |-> [type |-> t, text |-> text]]

(***************************************************************************)
(* Images.  A picture is piecewise constant over a grid of grid[1] x       *)
(* grid[2] tiles: pixel (x, y) of a size[1] x size[2] picture has the      *)
(* value data[<<(x * grid[1]) \div size[1], (y * grid[2]) \div size[2]>>], *)
(* a tuple with one entry per band.                                        *)
(***************************************************************************)
\* Upper bound on the number of tiles of an uploaded picture.
MaxTiles == 3

\* utils.py: image.resize((300, 300), ...)
TargetSize == 300
\* utils.py: np.array(image) / 255.0
NormDivisor == 255
\* Largest value of a uint8 sample.
Uint8Max == 255

Modes == {"RGB", "RGBA", "L", "P"}

\* Image.getbands(): the number of samples per pixel.
Bands(mode) ==
    CASE mode = "RGB" -> 3
      [] mode = "RGBA" -> 4
      [] mode = "L" -> 1
      [] mode = "P" -> 1

\* The palette of the "P" pictures: index -> RGB.
Palette == [i \in 0..1 |-> IF i = 0 THEN <<255, 0, 64>> ELSE <<0, 128, 255>>]

\* The pixel values the uploaded pictures are drawn from.
PixelValues(mode) ==
    CASE mode = "RGB" -> {<<255, 0, 64>>, <<0, 128, 255>>}
      [] mode = "RGBA" -> {<<255, 0, 64, 255>>, <<0, 128, 255, 0>>}
      [] mode = "L" -> {<<0>>, <<255>>}
      [] mode = "P" -> {<<0>>, <<1>>}

\* Picture sizes (width, height): smaller than, equal to and larger than the
\* target.
Sizes == {<<64, 48>>, <<TargetSize, TargetSize>>, <<500, 400>>}

Grids == { g \in (1..MaxTiles) \X (1..MaxTiles) : g[1] * g[2] <= MaxTiles }
TilesOf(grid) == (0..grid[1]-1) \X (0..grid[2]-1)

\* The pictures of one mode and grid.
PicturesOf(m, g) ==
    { [format |-> "image", truncated |-> t, mode |-> m, size |-> s,
       grid |-> g, data |-> d] :
        t \in BOOLEAN, s \in Sizes, d \in [TilesOf(g) -> PixelValues(m)] }

\* The bytes of an upload that encode a picture, whole or cut short.
ImageFiles == UNION { PicturesOf(mg[1], mg[2]) : mg \in Modes \X Grids }

\* The bytes of an upload that is no picture at all (say, plain text).
TextFile ==
    [format |-> "text", truncated |-> FALSE, mode |-> None, size |-> <<0, 0>>,
     grid |-> <<0, 0>>, data |-> [t \in {} |-> <<>>]]

Uploads == ImageFiles \cup {TextFile}

(***************************************************************************)
(* Pillow.                                                                 *)
(***************************************************************************)
\* Image.open(io.BytesIO(contents)): reads the header only; the pixel data
\* is decoded on first use (Image.load).
ImageOpen(contents) ==
    IF contents.format = "image"
    THEN Ok([mode |-> contents.mode, size |-> contents.size,
             grid |-> contents.grid, data |-> contents.data,
             truncated |-> contents.truncated])
    ELSE Raise("UnidentifiedImageError", "cannot identify image file")

\* Image.load(): decoding a file that was cut short raises OSError.
ImageLoad(im) ==
    IF im.truncated
    THEN Raise("OSError", "image file is truncated")
    ELSE Ok(im)

\* One pixel of Image.convert('RGB').
ToRGB(mode, px) ==
    CASE mode = "RGB" -> px
      [] mode = "RGBA" -> <<px[1], px[2], px[3]>>
      [] mode = "L" -> <<px[1], px[1], px[1]>>
      [] mode = "P" -> Palette[px[1]]

\* Image.convert('RGB'): a new three-band picture of the same size.
ImageConvertRGB(im) ==
    LET loaded == ImageLoad(im) IN
    IF ~loaded.ok THEN loaded
    ELSE Ok([im EXCEPT !.mode = "RGB",
                       !.data = [t \in DOMAIN im.data |-> ToRGB(im.mode, im.data[t])]])

\* Saturation of a resampled sample to uint8.
clip8(v) == IF v < 0 THEN 0 ELSE IF v > Uint8Max THEN Uint8Max ELSE v

ClampIndex(i, n) == IF i < 0 THEN 0 ELSE IF i > n - 1 THEN n - 1 ELSE i

\* The resampling filter along one axis.  Pillow's Lanczos coefficients are
\* real numbers; the model keeps their shape: a positive centre, negative
\* outer lobes, coefficients that sum to one (TapsNorm/TapsNorm), the border
\* repeated, and the result saturated to uint8.
LanczosTaps == <<-1, 4, 10, 4, -1>>
TapsNorm ==
    LanczosTaps[1] + LanczosTaps[2] + LanczosTaps[3] + LanczosTaps[4] + LanczosTaps[5]
Resample1D(line, n) ==
    [i \in 0..n-1 |->
        clip8((LanczosTaps[1] * line[ClampIndex(i - 2, n)]
             + LanczosTaps[2] * line[ClampIndex(i - 1, n)]
             + LanczosTaps[3] * line[i]
             + LanczosTaps[4] * line[ClampIndex(i + 1, n)]
             + LanczosTaps[5] * line[ClampIndex(i + 2, n)]) \div TapsNorm)]

\* The two passes of ImagingResample: along x, then along y, band by band.
ResampleData(im) ==
    LET gw == im.grid[1]
        gh == im.grid[2]
        nb == Bands(im.mode)
        horiz == [t \in TilesOf(im.grid) |->
                    [b \in 1..nb |->
                        Resample1D([i \in 0..gw-1 |-> im.data[<<i, t[2]>>][b]], gw)[t[1]]]]
    IN [t \in TilesOf(im.grid) |->
          [b \in 1..nb |->
              Resample1D([j \in 0..gh-1 |-> horiz[<<t[1], j>>][b]], gh)[t[2]]]]

\* Image.resize(size, Image.Resampling.LANCZOS): a new picture; the receiver
\* is left as it was.  A picture that already has the size is copied; "P"
\* pictures are resized with the nearest-neighbour filter whatever filter is
\* asked for.
ImageResize(im, size) ==
    LET loaded == ImageLoad(im) IN
    IF ~loaded.ok THEN loaded
    ELSE IF im.size = size THEN Ok(im)
    ELSE IF im.mode = "P" THEN Ok([im EXCEPT !.size = size])
    ELSE Ok([im EXCEPT !.size = size, !.data = ResampleData(im)])

(***************************************************************************)
(* numpy.                                                                  *)
(***************************************************************************)
\* np.array(image, dtype='uint8'): height x width (x bands when the mode has
\* more than one band).
AsArray(im) ==
    [shape |-> IF Bands(im.mode) = 1
               THEN <<im.size[2], im.size[1]>>
               ELSE <<im.size[2], im.size[1], Bands(im.mode)>>,
     dtype |-> "uint8",
     grid |-> im.grid,
     data |-> im.data]

\* array / 255.0, element by element: the float k / 255 is <<k, 255>>.
DivideBy(a, d) ==
    [a EXCEPT !.dtype = "float64",
              !.data = [t \in DOMAIN a.data |->
                          [b \in DOMAIN a.data[t] |-> <<a.data[t][b], d>>]]]

\* np.expand_dims(a, axis=0)
expand_dims(a) == [a EXCEPT !.shape = <<1>> \o a.shape]

(***************************************************************************)
(* utils.py: preprocess, and the model.                                    *)
(***************************************************************************)
\* preprocess(image): resize, np.array(..., dtype='uint8'), / 255.0
preprocess(im) ==
    LET resized == ImageResize(im, <<TargetSize, TargetSize>>) IN
    IF ~resized.ok THEN resized
    ELSE Ok(DivideBy(AsArray(resized.val), NormDivisor))

\* Dense(6, activation='softmax'): the width of the model's output.
OutputWidth == 6
\* The resolution of a probability: a softmax output is a vector of
\* OutputWidth multiples of 1/Units that sum to one.
Units == 3

RECURSIVE SumUpTo(_, _)
SumUpTo(v, i) == IF i < 0 THEN 0 ELSE v[i] + SumUpTo(v, i - 1)

SoftmaxOutputs ==
    { v \in [0..OutputWidth-1 -> 0..Units] : SumUpTo(v, OutputWidth - 1) = Units }

\* The object load_model returns: model_arc() with the weights loaded.
LoadedModel == "Sequential"

\* input_shape=(300, 300, 3), with the batch axis in front.
ModelInputShape == <<1, TargetSize, TargetSize, 3>>

\* model.predict(image_batch, verbose=0) on the global `model`: one row of
\* probabilities per picture of the batch.  probs is the row the loaded
\* weights produce for this batch; opFails is a runtime failure of the
\* inference backend.
ModelPredict(m, image_batch, opFails, probs) ==
    IF m = None
    THEN Raise("AttributeError", "'NoneType' object has no attribute 'predict'")
    ELSE IF image_batch.shape # ModelInputShape
    THEN Raise("ValueError", "input is incompatible with the layer")
    ELSE IF opFails
    THEN Raise("OpError", "inference failed")
    ELSE Ok(<<probs>>)

\* load_model(model_path): model_arc(), then load_weights, which raises on a
\* file that does not hold this architecture's weights.
load_model(w) ==
    IF w = "valid" THEN Ok(LoadedModel)
    ELSE Raise("ValueError", "weights do not match the model")

(***************************************************************************)
(* numpy reductions over one row of probabilities (indices 0..n-1).        *)
(***************************************************************************)
RECURSIVE ArgmaxFrom(_, _, _)
\* The scan of np.argmax: best is the index of the largest entry seen so
\* far; a later entry replaces it only when strictly larger.
ArgmaxFrom(v, i, best) ==
    IF i > OutputWidth - 1 THEN best
    ELSE ArgmaxFrom(v, i + 1, IF v[i] > v[best] THEN i ELSE best)

RECURSIVE ArgmaxLastFrom(_, _, _)
\* A plausible slip: the last maximum instead of the first.
ArgmaxLastFrom(v, i, best) ==
    IF i > OutputWidth - 1 THEN best
    ELSE ArgmaxLastFrom(v, i + 1, IF v[i] >= v[best] THEN i ELSE best)

argmax_last(v) == ArgmaxLastFrom(v, 1, 0)

\* np.argmax(v)
argmax(v) == ArgmaxFrom(v, 1, 0)

RECURSIVE MaxFrom(_, _, _)
MaxFrom(v, i, best) ==
    IF i > OutputWidth - 1 THEN best
    ELSE MaxFrom(v, i + 1, IF v[i] > best THEN v[i] ELSE best)

\* np.max(v)
amax(v) == MaxFrom(v, 1, v[0])

(***************************************************************************)
(* main.py: the startup event.                                             *)
(***************************************************************************)
\* A plausible slip: the except clause logs the error and does not re-raise.
load_model_on_startup_swallow(m, w) ==
    IF w = "absent" THEN [model |-> m, raised |-> NoError]
    ELSE LET loaded == load_model(w) IN
         IF loaded.ok THEN [model |-> loaded.val, raised |-> NoError]
         ELSE [model |-> m, raised |-> NoError]

\* load_model_on_startup(): the value of the global `model` when it returns
\* and the exception it re-raises (NoError when it returns normally).  m is
\* the global before the call, w the state of the weights file.
load_model_on_startup(m, w) ==
    IF w = "absent"
    THEN [model |-> m,
          raised |-> [type |-> "FileNotFoundError", text |-> "Model file not found"]]
    ELSE LET loaded == load_model(w) IN
         IF loaded.ok THEN [model |-> loaded.val, raised |-> NoError]
         ELSE [model |-> m, raised |-> loaded.err]

(***************************************************************************)
(* main.py: the handlers.                                                  *)
(***************************************************************************)
NotCalled == "not called"
NoProbs == <<>>

NoResponse ==
    [endpoint |-> None, status |-> 0, body |-> [none |-> None],
     seen |-> None, file |-> None, inferOn |-> NotCalled, probs |-> NoProbs,
     raised |-> NoError]

\* What a response records besides what is sent: the handle the handler
\* saw on entry, the kind of upload, the handle model.predict was called
\* on, the row behind a 200, and the exception the try block raised.
Response(endpoint, status, body, seen) ==
    [endpoint |-> endpoint, status |-> status, body |-> body, seen |-> seen,
     file |-> None, inferOn |-> NotCalled, probs |-> NoProbs, raised |-> NoError]

FileKind(file) ==
    IF file.format # "image" THEN "text"
    ELSE IF file.truncated THEN "truncated"
    ELSE "picture"

\* read_root(): static/index.html, or a 404 page when it is missing.
read_root(m, indexExists) ==
    IF indexExists
    THEN Response("/", 200, [html |-> "index.html"], m)
    ELSE Response("/", 404, [html |-> "<h1>Error: index.html not found</h1>"], m)

\* A plausible slip: the flag inverted.
health_check_inverted(m) ==
    Response("/health", 200, [status |-> "healthy", model_loaded |-> (m = None)], m)

\* health_check()
health_check(m) ==
    Response("/health", 200, [status |-> "healthy", model_loaded |-> (m # None)], m)

\* A plausible slip: no check of the handle before the pipeline.
predict_guard_missing(m) == FALSE

\* A plausible slip: the check inverted.
predict_guard_inverted(m) == m # None

\* predict, `if model is None`: whether the handler raises the 500.
predict_guard(m) == m = None

\* A plausible slip: an except clause that names the decoder's errors only.
Caught_os_error_only(errType) == IsSubclass(errType, "OSError")

\* predict, `except Exception as e`
Caught(errType) == IsSubclass(errType, "Exception")

\* A plausible slip: the picture handed to preprocess in the mode it has.
ConvertIfNeeded_skipped(im) == Ok(im)

\* predict, `if image.mode != 'RGB': image = image.convert('RGB')`
ConvertIfNeeded(im) ==
    IF im.mode # "RGB" THEN ImageConvertRGB(im) ELSE Ok(im)

\* `await file.read()`
FileRead(file, ioFails) ==
    IF ioFails THEN Raise("OSError", "read failed") ELSE Ok(file)

\* LABELS[predicted_index]
LabelLookup(i) ==
    IF i \in DOMAIN LABELS THEN Ok(LABELS[i]) ELSE Raise("KeyError", "index")

\* The outcome of the try block, and whether it called model.predict.
Outcome(result, called) == [result |-> result, called |-> called]

\* The body of predict's try block: Ok(content of the JSON response) or the
\* exception raised.
PredictBody(m, file, ioFails, opFails, probs) ==
    LET contents == FileRead(file, ioFails) IN
    IF ~contents.ok THEN Outcome(contents, FALSE) ELSE
    LET opened == ImageOpen(contents.val) IN
    IF ~opened.ok THEN Outcome(opened, FALSE) ELSE
    LET rgb == ConvertIfNeeded(opened.val) IN
    IF ~rgb.ok THEN Outcome(rgb, FALSE) ELSE
    LET processed_image == preprocess(rgb.val) IN
    IF ~processed_image.ok THEN Outcome(processed_image, FALSE) ELSE
    LET image_batch == expand_dims(processed_image.val)
        predictions == ModelPredict(m, image_batch, opFails, probs)
    IN
    IF ~predictions.ok THEN Outcome(predictions, TRUE) ELSE
    LET predicted_index == argmax(predictions.val[1])
        confidence == amax(predictions.val[1])
        predicted_class == LabelLookup(predicted_index)
    IN
    IF ~predicted_class.ok THEN Outcome(predicted_class, TRUE) ELSE
    LET bin == classify_recyclable(predicted_class.val) IN
    Outcome(Ok([predicted_class |-> predicted_class.val,
                confidence |-> confidence,
                bin |-> bin[1],
                servo_angle |-> bin[2]]), TRUE)

\* predict from `await file.read()` on: the response sent.  An exception
\* the except clause does not catch leaves the handler, and the framework
\* answers 500 "Internal Server Error".
predict_resume(m, seen, file, ioFails, opFails, probs) ==
    LET out == PredictBody(m, file, ioFails, opFails, probs)
        base == [Response("/predict", 200, [none |-> None], seen) EXCEPT
                    !.file = FileKind(file),
                    !.inferOn = IF out.called THEN m ELSE NotCalled]
    IN
    IF out.result.ok
    THEN [base EXCEPT !.body = out.result.val, !.probs = probs]
    ELSE IF Caught(out.result.err.type)
    THEN [base EXCEPT !.status = 400,
                      !.body = [detail |-> "Error processing image: "
                                             \o out.result.err.text],
                      !.raised = out.result.err]
    ELSE [base EXCEPT !.status = 500,
                      !.body = [detail |-> "Internal Server Error"],
                      !.raised = out.result.err]

\* predict up to the 500: the response when the guard fires.
predict_not_loaded(m, file) ==
    [Response("/predict", 500, [detail |-> "Model not loaded"], m) EXCEPT
        !.file = FileKind(file)]

(***************************************************************************)
(* Spec: the application as served.                                        *)
(*                                                                         *)
(* The coroutines run on one event loop, so a handler runs without         *)
(* interruption between awaits.  load_model_on_startup, read_root and      *)
(* health_check have no await and are one step each; predict has one, at   *)
(* `await file.read()`, and is two steps.                                  *)
(***************************************************************************)
\* Upper bound on the predict calls suspended at the same time.
MaxInFlight == 2

\* The uploads sent to the served application: text, and one picture of
\* each mode, whole and cut short.
ServerUploads ==
    { u \in Uploads :
        \/ u.format = "text"
        \/ /\ u.grid = <<1, 1>>
           /\ u.size = <<500, 400>>
           /\ u.data[<<0, 0>>] = (CHOOSE v \in PixelValues(u.mode) : v[1] = 0)
           /\ (u.truncated => u.mode \in {"RGB", "RGBA"}) }

ClassifyIdle ==
    /\ cInput = <<>>
    /\ cResult = <<>>

PreprocessIdle ==
    /\ pc = "idle"
    /\ upload = TextFile
    /\ image = TextFile
    /\ processed = <<>>
    /\ processed2 = <<>>
    /\ batch = <<>>

ServerIdle ==
    /\ lifespan = "off"
    /\ weights = "absent"
    /\ server = "init"
    /\ model = None
    /\ startupError = NoError
    /\ modelWrites = 0
    /\ inflight = EmptyBag
    /\ lastResponse = NoResponse

\* The module is imported (`model = None`), and the process is started with
\* some state of the weights file, under a server that runs the startup
\* event (uvicorn.run(app), lifespan on) or one that does not (lifespan off).
Init ==
    /\ lifespan \in {"on", "off"}
    /\ weights \in {"valid", "absent", "corrupt"}
    /\ server = "init"
    /\ model = None
    /\ startupError = NoError
    /\ modelWrites = 0
    /\ inflight = EmptyBag
    /\ lastResponse = NoResponse
    /\ ClassifyIdle
    /\ PreprocessIdle

\* A plausible slip: the loader also runs while requests are served.
StartupReload ==
    /\ lifespan = "on"
    /\ server \in {"init", "serving"}
    /\ modelWrites < 3
    /\ LET r == load_model_on_startup(model, weights) IN
        /\ model' = r.model
        /\ startupError' = r.raised
        /\ modelWrites' = IF r.raised = NoError THEN modelWrites + 1 ELSE modelWrites
        /\ server' = IF r.raised = NoError THEN "serving" ELSE "exited"
    /\ UNCHANGED <<lifespan, weights, inflight, lastResponse>>
    /\ UNCHANGED <<classifyVars, preprocessVars>>

\* The server runs the startup event before it accepts a connection.  When
\* load_model_on_startup raises, startup has failed and the server exits.
Startup ==
    /\ lifespan = "on"
    /\ server = "init"
    /\ LET r == load_model_on_startup(model, weights) IN
        /\ model' = r.model
        /\ startupError' = r.raised
        /\ modelWrites' = IF r.raised = NoError THEN modelWrites + 1 ELSE modelWrites
        /\ server' = IF r.raised = NoError THEN "serving" ELSE "exited"
    /\ UNCHANGED <<lifespan, weights, inflight, lastResponse>>
    /\ UNCHANGED <<classifyVars, preprocessVars>>

\* A server that does not drive the lifespan protocol serves the handlers
\* without ever running the startup event.
ServeWithoutLifespan ==
    /\ lifespan = "off"
    /\ server = "init"
    /\ server' = "serving"
    /\ UNCHANGED <<lifespan, weights, model, startupError, modelWrites,
                   inflight, lastResponse>>
    /\ UNCHANGED <<classifyVars, preprocessVars>>

\* GET /
Root ==
    /\ server = "serving"
    /\ \E indexExists \in BOOLEAN :
          lastResponse' = read_root(model, indexExists)
    /\ UNCHANGED <<lifespan, weights, server, model, startupError,
                   modelWrites, inflight>>
    /\ UNCHANGED <<classifyVars, preprocessVars>>

\* GET /health
Health ==
    /\ server = "serving"
    /\ lastResponse' = health_check(model)
    /\ UNCHANGED <<lifespan, weights, server, model, startupError,
                   modelWrites, inflight>>
    /\ UNCHANGED <<classifyVars, preprocessVars>>

\* POST /predict up to `await file.read()`: the 500, or the call suspends.
PredictStart ==
    /\ server = "serving"
    /\ BagCardinality(inflight) < MaxInFlight
    /\ \E file \in ServerUploads :
          IF predict_guard(model)
          THEN /\ lastResponse' = predict_not_loaded(model, file)
               /\ UNCHANGED inflight
          ELSE /\ inflight' = inflight (+) SetToBag({[file |-> file, seen |-> model]})
               /\ UNCHANGED lastResponse
    /\ UNCHANGED <<lifespan, weights, server, model, startupError, modelWrites>>
    /\ UNCHANGED <<classifyVars, preprocessVars>>

\* What model.predict may do with a well-formed batch: fail in the backend,
\* or return the row the weights give.
InferenceOutcomes ==
    {[fails |-> TRUE, probs |-> NoProbs]}
        \cup {[fails |-> FALSE, probs |-> p] : p \in SoftmaxOutputs}

\* POST /predict from `await file.read()` to the response.  The read may
\* fail; if it does not, the inference has one of its outcomes.
PredictFinish ==
    /\ server = "serving"
    /\ \E req \in BagToSet(inflight) :
       \E ioFails \in BOOLEAN :
       \E inf \in IF ioFails THEN {[fails |-> FALSE, probs |-> NoProbs]}
                             ELSE InferenceOutcomes :
          /\ inflight' = inflight (-) SetToBag({req})
          /\ lastResponse' = predict_resume(model, req.seen, req.file,
                                            ioFails, inf.fails, inf.probs)
    /\ UNCHANGED <<lifespan, weights, server, model, startupError, modelWrites>>
    /\ UNCHANGED <<classifyVars, preprocessVars>>

Next ==
    \/ Startup
    \/ ServeWithoutLifespan
    \/ Root
    \/ Health
    \/ PredictStart
    \/ PredictFinish

Spec == Init /\ [][Next]_vars

(***************************************************************************)
(* SpecClassify: classify_recyclable applied to a string.                  *)
(***************************************************************************)
\* The spellings of a word in every mix of upper and lower case.
CaseVariants(w) ==
    { [i \in 1..Len(w) |-> IF up[i] THEN upperChar(w[i]) ELSE w[i]] :
        up \in [1..Len(w) -> BOOLEAN] }

\* Names that are no label: the empty string, a label with a trailing
\* blank, a plural, another word, a label with punctuation.
OtherNames ==
    { <<>>,
      <<"g","l","a","s","s"," ">>,
      <<"p","l","a","s","t","i","c","s">>,
      <<"o","r","g","a","n","i","c">>,
      <<"T","R","A","S","H","!">>,
      <<"m","e","t","a","1">> }

ClassifyInputs ==
    UNION { CaseVariants(LABELS[i]) : i \in DOMAIN LABELS } \cup OtherNames

InitClassify ==
    /\ cInput \in ClassifyInputs
    /\ cResult = <<>>
    /\ ServerIdle
    /\ PreprocessIdle

Classify ==
    /\ cResult = <<>>
    /\ cResult' = classify_recyclable(cInput)
    /\ UNCHANGED cInput
    /\ UNCHANGED <<serverVars, preprocessVars>>

NextClassify == Classify

SpecClassify == InitClassify /\ [][NextClassify]_vars

(***************************************************************************)
(* SpecPreprocess: the image path of predict, one call per step, on every  *)
(* upload; preprocess is then called a second time on the same picture.    *)
(***************************************************************************)
InitPreprocess ==
    /\ upload \in Uploads
    /\ pc = "open"
    /\ image = TextFile
    /\ processed = <<>>
    /\ processed2 = <<>>
    /\ batch = <<>>
    /\ ServerIdle
    /\ ClassifyIdle

\* image = Image.open(io.BytesIO(contents))
Open ==
    /\ pc = "open"
    /\ LET r == ImageOpen(upload) IN
        IF r.ok THEN image' = r.val /\ pc' = "convert"
                ELSE pc' = "failed" /\ UNCHANGED image
    /\ UNCHANGED <<upload, processed, processed2, batch>>
    /\ UNCHANGED <<serverVars, classifyVars>>

\* if image.mode != 'RGB': image = image.convert('RGB')
Convert ==
    /\ pc = "convert"
    /\ LET r == ConvertIfNeeded(image) IN
        IF r.ok THEN image' = r.val /\ pc' = "preprocess"
                ELSE pc' = "failed" /\ UNCHANGED image
    /\ UNCHANGED <<upload, processed, processed2, batch>>
    /\ UNCHANGED <<serverVars, classifyVars>>

\* processed_image = preprocess(image)
Preprocess ==
    /\ pc = "preprocess"
    /\ LET r == preprocess(image) IN
        IF r.ok THEN processed' = r.val /\ pc' = "again"
                ELSE pc' = "failed" /\ UNCHANGED processed
    /\ UNCHANGED <<upload, image, processed2, batch>>
    /\ UNCHANGED <<serverVars, classifyVars>>

\* preprocess(image) once more, on the picture the first call was given
PreprocessAgain ==
    /\ pc = "again"
    /\ processed2' = preprocess(image).val
    /\ pc' = "batch"
    /\ UNCHANGED <<upload, image, processed, batch>>
    /\ UNCHANGED <<serverVars, classifyVars>>

\* image_batch = np.expand_dims(processed_image, axis=0)
ExpandDims ==
    /\ pc = "batch"
    /\ batch' = expand_dims(processed)
    /\ pc' = "done"
    /\ UNCHANGED <<upload, image, processed, processed2>>
    /\ UNCHANGED <<serverVars, classifyVars>>

NextPreprocess ==
    \/ Open
    \/ Convert
    \/ Preprocess
    \/ PreprocessAgain
    \/ ExpandDims

SpecPreprocess == InitPreprocess /\ [][NextPreprocess]_vars

(***************************************************************************)
(* Properties.                                                             *)
(***************************************************************************)
PredictResponse == lastResponse.endpoint = "/predict"

\* C1: a POST /predict handled while the handle is None is answered 500
\* "Model not loaded" whatever the upload, no call gets past the check with
\* a None handle, model.predict is not called, and the handle is still None
\* (never written) afterwards.
C1_NotLoadedIs500 ==
    /\ \A req \in BagToSet(inflight) : req.seen # None
    /\ (PredictResponse /\ lastResponse.seen = None) =>
          /\ lastResponse.status = 500
          /\ lastResponse.body = [detail |-> "Model not loaded"]
          /\ lastResponse.inferOn = NotCalled
          /\ model = None
          /\ modelWrites = 0

\* C1 witness: a whole picture was uploaded while the handle was None.
C1_Witness ==
    /\ PredictResponse
    /\ lastResponse.seen = None
    /\ lastResponse.file = "picture"
    /\ lastResponse.status = 500

\* C2: with the handle initialized, a POST /predict ends 200 or 400; it ends
\* 400 exactly when a step of the pipeline raised, with a message that
\* embeds the text of that error; an upload that is no picture or is cut
\* short ends 400 (the decoder's text when the read itself went well); and
\* the application goes on serving.
C2_PipelineFailureIs400 ==
    (PredictResponse /\ lastResponse.seen # None) =>
        /\ lastResponse.status \in {200, 400}
        /\ (lastResponse.status = 400) <=> (lastResponse.raised # NoError)
        /\ lastResponse.status = 400 =>
              lastResponse.body =
                  [detail |-> "Error processing image: " \o lastResponse.raised.text]
        /\ lastResponse.file \in {"text", "truncated"} => lastResponse.status = 400
        /\ (lastResponse.file = "text" /\ lastResponse.raised.text # "read failed") =>
              lastResponse.body.detail
                  = "Error processing image: cannot identify image file"
        /\ server = "serving"
        /\ ENABLED Health

\* C2 witness: the inference itself failed on a whole picture.
C2_Witness ==
    /\ PredictResponse
    /\ lastResponse.status = 400
    /\ lastResponse.file = "picture"
    /\ lastResponse.inferOn = LoadedModel
    /\ lastResponse.raised.type = "OpError"

\* C4: GET /health answers 200 with status "healthy" and model_loaded equal
\* to whether the handle is initialized: false while the handle has never
\* been written, true once it has.
C4_HealthReflectsHandle ==
    lastResponse.endpoint = "/health" =>
        /\ lastResponse.status = 200
        /\ lastResponse.body.status = "healthy"
        /\ lastResponse.body.model_loaded = (model # None)
        /\ lastResponse.body.model_loaded = (modelWrites = 1)

\* C4 witness: a health call answered while the handle was not initialized.
C4_Witness ==
    /\ lastResponse.endpoint = "/health"
    /\ lastResponse.body.model_loaded = FALSE
    /\ model = None

\* C5: when the startup event runs and the weights file is absent or does
\* not load, load_model_on_startup re-raises, the handle stays None, and no
\* request is ever accepted or answered.
C5_FailedStartupServesNothing ==
    /\ (lifespan = "on" /\ weights # "valid") =>
          /\ server \in {"init", "exited"}
          /\ server = "exited" => startupError # NoError
          /\ (server = "exited" /\ weights = "absent") =>
                startupError.type = "FileNotFoundError"
          /\ model = None
          /\ modelWrites = 0
          /\ inflight = EmptyBag
          /\ lastResponse = NoResponse
    /\ startupError # NoError =>
          /\ server = "exited"
          /\ lastResponse = NoResponse
          /\ ~ ENABLED Next

\* C5 witness: startup has failed on an absent weights file.
C5_Witness ==
    /\ lifespan = "on"
    /\ weights = "absent"
    /\ server = "exited"
    /\ startupError.type = "FileNotFoundError"

\* C6: in a 200 response of POST /predict, predicted_class is LABELS[i] for
\* an i in 0..5, (bin, servo_angle) is ("Recyclable", 90) for i in 0..4 and
\* ("Other", 0) for i = 5, so servo_angle is 0 or 90 and is 90 exactly when
\* bin is "Recyclable".
C6_ResponseConsistent ==
    (PredictResponse /\ lastResponse.status = 200) =>
        /\ \E i \in 0..5 :
              /\ lastResponse.body.predicted_class = LABELS[i]
              /\ i <= 4 => /\ lastResponse.body.bin = "Recyclable"
                           /\ lastResponse.body.servo_angle = 90
              /\ i = 5 => /\ lastResponse.body.bin = "Other"
                          /\ lastResponse.body.servo_angle = 0
        /\ lastResponse.body.servo_angle \in {0, 90}
        /\ (lastResponse.body.servo_angle = 90)
              <=> (lastResponse.body.bin = "Recyclable")

\* C6 witness: a 200 response for class 5, trash.
C6_Witness ==
    /\ PredictResponse
    /\ lastResponse.status = 200
    /\ lastResponse.body.predicted_class = trash
    /\ lastResponse.body.bin = "Other"

\* C7: the class of a 200 response is the label of the lowest index that
\* holds the maximum of the model's output row, and the confidence is the
\* entry of the row at that index.
C7_ArgmaxFirstMaximum ==
    (PredictResponse /\ lastResponse.status = 200) =>
        \E i \in 0..OutputWidth-1 :
            /\ lastResponse.body.predicted_class = LABELS[i]
            /\ \A j \in 0..OutputWidth-1 : lastResponse.probs[j] <= lastResponse.probs[i]
            /\ \A j \in 0..i-1 : lastResponse.probs[j] < lastResponse.probs[i]
            /\ lastResponse.body.confidence = lastResponse.probs[i]

\* C7 witness: a 200 response for a row whose maximum occurs twice.
C7_Witness ==
    /\ PredictResponse
    /\ lastResponse.status = 200
    /\ \E i, j \in 0..OutputWidth-1 :
          /\ i < j
          /\ lastResponse.probs[i] = lastResponse.body.confidence
          /\ lastResponse.probs[j] = lastResponse.body.confidence

\* C9: model.predict is only ever called on the loaded handle, after the
\* one successful run of the startup event; every call suspended past the
\* not-loaded check saw a loaded handle and finds it loaded when it resumes.
C9_InferenceOnlyOnLoaded ==
    /\ \A req \in BagToSet(inflight) :
          /\ req.seen = LoadedModel
          /\ model = LoadedModel
    /\ lastResponse.inferOn # NotCalled =>
          /\ lastResponse.inferOn = LoadedModel
          /\ modelWrites = 1
          /\ startupError = NoError
    /\ (lifespan = "on" /\ server = "serving") => model = LoadedModel

\* C9 witness: a call is suspended at the read while another has been
\* answered from an inference.
C9_Witness ==
    /\ inflight # EmptyBag
    /\ PredictResponse
    /\ lastResponse.inferOn = LoadedModel

\* C10: the handle is written at most once, by the startup event, from
\* None to the loaded model while the server is not yet serving; no step of
\* a handler changes it, and once loaded it keeps its value.
C10_HandleWrittenOnce ==
    /\ [](modelWrites <= 1 /\ (model # None <=> modelWrites = 1))
    /\ [][(model' # model \/ modelWrites' # modelWrites) =>
            /\ model = None
            /\ model' = LoadedModel
            /\ server = "init"
            /\ server' = "serving"
            /\ lastResponse' = lastResponse
            /\ inflight' = inflight]_vars
    /\ [][(lastResponse' # lastResponse \/ inflight' # inflight) =>
            model' = model]_vars

\* C10 witness: requests of all three kinds of step have run on a loaded
\* handle: one predict is suspended, another has been answered.
C10_Witness ==
    /\ model = LoadedModel
    /\ modelWrites = 1
    /\ inflight # EmptyBag
    /\ PredictResponse
    /\ lastResponse.status = 400

\* Equality of two strings up to the case of their letters.
SameIgnoringCase(s, w) ==
    /\ Len(s) = Len(w)
    /\ \A i \in 1..Len(w) : s[i] = w[i] \/ s[i] = upperChar(w[i])

\* C3: classify_recyclable returns a value for every string: ("Recyclable",
\* 90) exactly when the string is cardboard, glass, metal, paper or plastic
\* in some letter case, and ("Other", 0) otherwise, trash in any letter
\* case and names that are no label included.
C3_ClassifyRule ==
    cResult # <<>> =>
        /\ cResult \in {<<"Recyclable", 90>>, <<"Other", 0>>}
        /\ (cResult = <<"Recyclable", 90>>)
              <=> (\E i \in 0..4 : SameIgnoringCase(cInput, LABELS[i]))
        /\ SameIgnoringCase(cInput, trash) => cResult = <<"Other", 0>>
        /\ cInput \in OtherNames => cResult = <<"Other", 0>>

\* C3 witness: "Cardboard", with a capital, classified as recyclable.
C3_Witness ==
    /\ cInput = <<"C","a","r","d","b","o","a","r","d">>
    /\ cResult = <<"Recyclable", 90>>

\* The samples of an array, whatever the tile and band.
Samples(a) == UNION { {a.data[t][b] : b \in DOMAIN a.data[t]} : t \in DOMAIN a.data }

====
